---- MODULE Spec2Model ----
(***************************************************************************)
(* Automatic watering controller (Arduino Uno sketch).                     *)
(*                                                                         *)
(* src/src/automatic_watering_system.ino holds two sketches one after the  *)
(* other.  Lines 1-158 are the first sketch ("v1"): no calibration guard,  *)
(* no boot pre-clear.  Lines 160-388 are the second sketch ("v2"), in      *)
(* which two revisions of every function are interleaved; it is modelled   *)
(* statement by statement in the order the text has them.                  *)
(*                                                                         *)
(* src/automatic_watering_system.ino holds three more sketches.  Lines      *)
(* 1-162 ("r1") are the first sketch with other names and a status line    *)
(* that also prints the raw sample.  Lines 164-426 ("r2") interleave a     *)
(* sketch with averaging and 4 s timers and one without averaging and      *)
(* with 5 s timers: loop() makes both decisions, one after the other, each *)
(* with its own timestamp.  Lines 428-555 ("r3") are the sketch without    *)
(* averaging.  Where r2 declares a name twice the later declaration is     *)
(* the one in scope for the code that follows it.                          *)
(*                                                                         *)
(* A handler (setup, loop) is one atomic action: millis() read inside      *)
(* setPumpState returns the same value as the read at the top of loop().   *)
(* The only time that passes inside a handler is the explicit delay(20)    *)
(* of the priming loop.                                                    *)
(***************************************************************************)
EXTENDS Integers, Sequences, FiniteSets, TLC

VARIABLES
    variant,            \* which sketch is flashed: "v1" or "v2"
    RELAY_ACTIVE_LOW,   \* const bool RELAY_ACTIVE_LOW
    dryValue,           \* calibration: raw value in dry soil
    wetValue,           \* calibration: raw value in wet soil
    pc,                 \* "boot" before setup(), "run" afterwards
    clock,              \* millis(): unsigned 32-bit, see U32Sub
    soil,               \* what analogRead(SOIL_SENSOR_PIN) returns now
    samples,            \* int samples[AVERAGE_SAMPLES]
    sampleIndex,        \* uint8_t sampleIndex
    sampleBufferFull,   \* bool sampleBufferFull
    pumpOn,             \* bool pumpOn
    lastSampleMs,       \* unsigned long lastSampleMs
    lastPumpChangeMs,   \* unsigned long lastPumpChangeMs
    lastPumpStateChangeTime, \* r2 only: the timestamp setPump() writes
    relayPin,           \* level last written to RELAY_PIN
    ledPin,             \* level last written to LED_PIN
    serial,             \* lines printed by the latest handler invocation
    obs,                \* what the latest handler invocation computed
    divByZero,          \* map() has divided by zero
    sinceWrite,         \* real ms since the outputs were last written
    onPeriods,          \* completed ON periods of the pump
    ticks,              \* executed control ticks so far
    soilChanges,        \* changes of the soil reading so far
    fed,                \* raw values given to addSample() since the window was empty
    twin                \* a second board flashed with the other relay polarity

vars == << variant, RELAY_ACTIVE_LOW, dryValue, wetValue, pc, clock, soil,
           samples, sampleIndex, sampleBufferFull, pumpOn, lastSampleMs,
           lastPumpChangeMs, lastPumpStateChangeTime, relayPin, ledPin,
           serial, obs, divByZero, sinceWrite, onPeriods, ticks, soilChanges,
           fed, twin >>

config == << variant, RELAY_ACTIVE_LOW, dryValue, wetValue >>

----------------------------------------------------------------------------
(* Program constants *)

DRY_THRESHOLD_PERCENT == 35
WET_THRESHOLD_PERCENT == 55
SAMPLE_INTERVAL_MS == 500
MIN_PUMP_RUN_MS == 5000
PUMP_COOLDOWN_MS == 30000
AVERAGE_SAMPLES == 10
PRIME_DELAY_MS == 20

\* src/automatic_watering_system.ino, r2 and r3
SENSOR_DRY_VALUE == 850
SENSOR_WET_VALUE == 400
SIMPLE_WET_THRESHOLD_PERCENT == 50
SIMPLE_SAMPLE_INTERVAL_MS == 1000
MIN_PUMP_ON_TIME_MS == 5000
MIN_PUMP_OFF_TIME_MS == 5000
\* r2 only: the timers of its first decision
MIN_PUMP_RUN_TIME_MS == 4000
MERGED_PUMP_COOLDOWN_MS == 4000

----------------------------------------------------------------------------
(* Bounds of the model *)

MaxTicks == 3
MaxSoilChanges == 1
MaxCycleTicks == 7
MaxCycleSoilChanges == 2
MaxClock == 67001
MaxRootTicks == 3
MaxRootSoilChanges == 1
MaxMapperRaw == 12
MaxFed == 12
MaxLiveTicks == 134
MaxLiveSoilChanges == 1
MaxWrapTicks == 3
MaxWrapSoilChanges == 1

\* raw sensor readings (analogRead gives 0..1023):
\* 0 and 450 are wet, 740 and 1023 are dry
RawValues == {0, 450, 740, 1023}

\* <<dryValue, wetValue>>: the shipped calibration and two invalid ones
Calibrations == { <<850, 420>>, <<420, 850>>, <<500, 500>> }

Variants == {"v1", "v2"}

\* the sketches of src/automatic_watering_system.ino
RootVariants == {"r1", "r2", "r3"}

\* what a long division by zero may leave in the quotient
DivZeroQuotients == {-1, 0, 101}

\* time passes until one of the two timers stands at one of these offsets
SampleOffsets == {SAMPLE_INTERVAL_MS}
ChangeOffsets == {MIN_PUMP_RUN_MS - 1, MIN_PUMP_RUN_MS, MIN_PUMP_RUN_MS + 1,
                  PUMP_COOLDOWN_MS - 1, PUMP_COOLDOWN_MS,
                  PUMP_COOLDOWN_MS + 1000}

ValidCalibrations == { c \in Calibrations : c[1] > c[2] }
InvalidCalibrations == Calibrations \ ValidCalibrations

\* the watering cycle: dry soil, watered, dry again, under the shipped
\* calibration
CycleRawValues == {0, 740, 1023}
CycleStartRaw == {740}
CycleChangeOffsets == {MIN_PUMP_RUN_MS + 1, PUMP_COOLDOWN_MS + 1000}

----------------------------------------------------------------------------
(* unsigned long arithmetic.  An unsigned 32-bit value v is held as the    *)
(* integer congruent to v modulo 2^32 in -2^31 .. 2^31-1, so values below  *)
(* 2^31 are held as themselves and larger ones as v - 2^32.                *)

TwoPow16 == 2^16
TwoPow15 == 2^15

U32Sub(a, b) ==
    LET l  == (a % TwoPow16) - (b % TwoPow16)
        br == IF l < 0 THEN 1 ELSE 0
        lo == l + br * TwoPow16
        h  == (a \div TwoPow16) - (b \div TwoPow16) - br
        hi == ((h + TwoPow15) % TwoPow16) - TwoPow15
    IN  hi * TwoPow16 + lo

\* unsigned comparison against a constant c in 0 .. 2^31-1
U32Ge(x, c) == x < 0 \/ x >= c
U32Lt(x, c) == ~U32Ge(x, c)

\* C integer division truncates toward zero
CDiv(a, b) ==
    LET aa == IF a < 0 THEN -a ELSE a
        bb == IF b < 0 THEN -b ELSE b
        q  == aa \div bb
    IN  IF (a < 0) = (b < 0) THEN q ELSE -q

Min(a, b) == IF a < b THEN a ELSE b

----------------------------------------------------------------------------
(* Arduino core *)

\* no clamping
constrain_Unclamped(amt, low, high) == amt
\* both sides clamped to the low end
constrain_ClampsToLow(amt, low, high) ==
    IF amt < low THEN low ELSE IF amt > high THEN low ELSE amt
\* #define constrain(amt,low,high) ((amt)<(low)?(low):((amt)>(high)?(high):(amt)))
constrain(amt, low, high) ==
    IF amt < low THEN low ELSE IF amt > high THEN high ELSE amt

\* the output range one short
map_ScaleOffByOne(x, in_min, in_max, out_min, out_max, ubq) ==
    IF in_max = in_min
    THEN ubq + out_min
    ELSE CDiv((x - in_min) * (out_max - out_min - 1), in_max - in_min) + out_min
\* the input range taken the other way round
map_Swapped(x, in_min, in_max, out_min, out_max, ubq) ==
    IF in_max = in_min
    THEN ubq + out_min
    ELSE CDiv((x - in_max) * (out_max - out_min), in_min - in_max) + out_min
\* long map(long x, long in_min, long in_max, long out_min, long out_max);
\* ubq is the quotient the division leaves when in_max = in_min
map(x, in_min, in_max, out_min, out_max, ubq) ==
    IF in_max = in_min
    THEN ubq + out_min
    ELSE CDiv((x - in_min) * (out_max - out_min), in_max - in_min) + out_min

----------------------------------------------------------------------------
(* The sketch *)

\* v2 only: if (dryValue <= wetValue) return 0;
calibrationInvalid(dry, wet) == dry <= wet

\* map() called with the range not reversed: dry maps to 100
moisturePercentFromRaw_NotReversed(v, rawValue, dry, wet, ubq) ==
    IF v = "v2" /\ calibrationInvalid(dry, wet)
    THEN 0
    ELSE LET r == constrain(rawValue, wet, dry)
             percent == map(r, wet, dry, 0, 100, ubq)
         IN  constrain(percent, 0, 100)

moisturePercentFromRaw(v, rawValue, dry, wet, ubq) ==
    IF v = "v2" /\ calibrationInvalid(dry, wet)
    THEN 0
    ELSE LET r == constrain(rawValue, wet, dry)
             percent == map(r, dry, wet, 0, 100, ubq)
         IN  constrain(percent, 0, 100)

\* the mapper divides by zero on this call
mapDividesByZero(v, dry, wet) ==
    /\ ~(v = "v2" /\ calibrationInvalid(dry, wet))
    /\ dry = wet

\* the two polarities exchanged
setRelay_Swapped(activeLow, turnOn) ==
    IF activeLow
    THEN (IF turnOn THEN "HIGH" ELSE "LOW")
    ELSE (IF turnOn THEN "LOW" ELSE "HIGH")

\* every relay driven as an active-low one
setRelay_IgnoresPolarity(activeLow, turnOn) ==
    IF turnOn THEN "LOW" ELSE "HIGH"

setRelay(activeLow, turnOn) ==
    IF activeLow
    THEN (IF turnOn THEN "LOW" ELSE "HIGH")
    ELSE (IF turnOn THEN "HIGH" ELSE "LOW")

\* the LED written with the level of an active-low relay
setPumpState_LedInverted(activeLow, turnOn, ms) ==
    [ pumpOn           |-> turnOn,
      lastPumpChangeMs |-> ms,
      relayPin         |-> setRelay(activeLow, turnOn),
      ledPin           |-> IF turnOn THEN "LOW" ELSE "HIGH" ]

\* the four things setPumpState(turnOn) writes, ms being millis()
setPumpState(activeLow, turnOn, ms) ==
    [ pumpOn           |-> turnOn,
      lastPumpChangeMs |-> ms,
      relayPin         |-> setRelay(activeLow, turnOn),
      ledPin           |-> IF turnOn THEN "HIGH" ELSE "LOW" ]

\* the window as a record
Window(s, i, f) == [ samples |-> s, sampleIndex |-> i, sampleBufferFull |-> f ]

addSampleV1(w, rawValue) ==
    LET s == [w.samples EXCEPT ![w.sampleIndex] = rawValue]
        i == w.sampleIndex + 1
    IN  IF i >= AVERAGE_SAMPLES
        THEN Window(s, 0, TRUE)
        ELSE Window(s, i, w.sampleBufferFull)

\* v2, as the text has it: the modulo advance, then inside
\* "if (sampleIndex == 0)" the increment and the wrap test of the other
\* revision
addSampleV2(w, rawValue) ==
    LET s  == [w.samples EXCEPT ![w.sampleIndex] = rawValue]
        i1 == (w.sampleIndex + 1) % AVERAGE_SAMPLES
    IN  IF i1 = 0
        THEN LET i2 == i1 + 1
             IN  IF i2 >= AVERAGE_SAMPLES
                 THEN Window(s, 0, TRUE)
                 ELSE Window(s, i2, w.sampleBufferFull)
        ELSE Window(s, i1, w.sampleBufferFull)

addSample(v, w, rawValue) ==
    IF v = "v2" THEN addSampleV2(w, rawValue) ELSE addSampleV1(w, rawValue)

RECURSIVE SumFirst(_, _)
SumFirst(s, n) == IF n = 0 THEN 0 ELSE s[n - 1] + SumFirst(s, n - 1)

\* sensorNow is what analogRead returns if the window is empty
getAverageRaw(w, sensorNow) ==
    LET count == IF w.sampleBufferFull THEN AVERAGE_SAMPLES ELSE w.sampleIndex
    IN  IF count = 0
        THEN sensorNow
        ELSE CDiv(SumFirst(w.samples, count), count)

RECURSIVE Prime(_, _, _, _)
\* for (i = 0; i < AVERAGE_SAMPLES; i++) addSample(analogRead(...));
Prime(v, w, rawValue, n) ==
    IF n = 0 THEN w ELSE Prime(v, addSample(v, w, rawValue), rawValue, n - 1)

\* serial lines: raw, avg and pct are the numbers printed on the line, -1
\* where the line prints none
Line(tag) ==
    [ tag |-> tag, raw |-> -1, avg |-> -1, pct |-> -1, pump |-> FALSE ]

\* src/src: printStatus(int rawValue, int moisturePercent) prints rawValue
\* after "Raw=", then the percentage, then pumpOn
StatusLine(rawValue, moisturePercent, on) ==
    [ tag |-> "STATUS", raw |-> rawValue, avg |-> -1,
      pct |-> moisturePercent, pump |-> on ]

\* r1: printStatus(int raw, int averageRaw, int moisturePercent)
StatusLineR1(raw, averageRaw, moisturePercent, on) ==
    [ tag |-> "STATUS", raw |-> raw, avg |-> averageRaw,
      pct |-> moisturePercent, pump |-> on ]

\* loop() calls printStatus(averageRaw, moisturePercent) in src/src and
\* printStatus(raw, averageRaw, moisturePercent) in r1
printStatus(v, rawValue, averageRaw, moisturePercent, on) ==
    IF v = "r1"
    THEN StatusLineR1(rawValue, averageRaw, moisturePercent, on)
    ELSE StatusLine(averageRaw, moisturePercent, on)

validateCalibration(dry, wet) ==
    IF dry <= wet
    THEN << Line("CAL_ERROR"), Line("CAL_ERROR") >>
    ELSE << Line("CAL_OK") >>

\* the cooldown test left out
cooldownDone_Always(elapsed) == TRUE
\* the cooldown never over
cooldownDone_Never(elapsed) == FALSE
\* the cooldown tested against the minimum run time
cooldownDone_MinRun(elapsed) == U32Ge(elapsed, MIN_PUMP_RUN_MS)
cooldownDone(elapsed) == U32Ge(elapsed, PUMP_COOLDOWN_MS)

\* the minimum-run test left out
minimumRunDone_Always(elapsed) == TRUE
\* the minimum run never over
minimumRunDone_Never(elapsed) == FALSE
\* the minimum run tested against the cooldown
minimumRunDone_Cooldown(elapsed) == U32Ge(elapsed, PUMP_COOLDOWN_MS)
minimumRunDone(elapsed) == U32Ge(elapsed, MIN_PUMP_RUN_MS)

\* the interval test left out
intervalElapsed_Always(now, last) == TRUE
\* the test written against a deadline:
\* if (now < lastSampleMs + SAMPLE_INTERVAL_MS) return;
intervalElapsed_Deadline(now, last) ==
    LET deadline == last + SAMPLE_INTERVAL_MS
    IN  IF (now < 0) = (deadline < 0) THEN now >= deadline ELSE now < 0
\* loop(): if (now - lastSampleMs < SAMPLE_INTERVAL_MS) return;
intervalElapsed(now, last) == ~U32Lt(U32Sub(now, last), SAMPLE_INTERVAL_MS)

\* the dry threshold itself not dry
soilIsDry_Strict(moisturePercent) == moisturePercent < DRY_THRESHOLD_PERCENT
soilIsDry(moisturePercent) == moisturePercent <= DRY_THRESHOLD_PERCENT

\* one threshold for both directions: no deadband
soilIsWet_SingleThreshold(moisturePercent) ==
    moisturePercent > DRY_THRESHOLD_PERCENT
soilIsWet(moisturePercent) == moisturePercent >= WET_THRESHOLD_PERCENT

\* The if/else of loop(): the setPumpState calls it makes, in order.
hysteresisV1(on, elapsed, moisturePercent) ==
    IF ~on
    THEN IF cooldownDone(elapsed) /\ soilIsDry(moisturePercent)
         THEN << TRUE >> ELSE << >>
    ELSE IF minimumRunDone(elapsed) /\ soilIsWet(moisturePercent)
         THEN << FALSE >> ELSE << >>

\* v2, as the text has it: the start test of the other revision sits inside
\* the stop branch, and that revision's stop test sits in its else
hysteresisV2(on, elapsed, moisturePercent) ==
    IF ~on
    THEN IF cooldownDone(elapsed) /\ soilIsDry(moisturePercent)
         THEN << TRUE >> ELSE << >>
    ELSE IF minimumRunDone(elapsed) /\ soilIsWet(moisturePercent)
         THEN IF cooldownDone(elapsed) /\ soilIsDry(moisturePercent)
              THEN << FALSE, TRUE >> ELSE << FALSE >>
         ELSE IF minimumRunDone(elapsed) /\ soilIsWet(moisturePercent)
              THEN << FALSE >> ELSE << >>

\* the pump state written again on a tick that decides nothing
hysteresis_Rewrites(v, on, elapsed, moisturePercent) ==
    LET calls == IF v = "v2"
                 THEN hysteresisV2(on, elapsed, moisturePercent)
                 ELSE hysteresisV1(on, elapsed, moisturePercent)
    IN  IF calls = << >> THEN << on >> ELSE calls

\* a maximum run time: the pump stopped once it has run for a cooldown
hysteresis_MaxRun(v, on, elapsed, moisturePercent) ==
    IF on /\ (elapsed < 0 \/ elapsed >= PUMP_COOLDOWN_MS)
    THEN << FALSE >>
    ELSE IF v = "v2"
         THEN hysteresisV2(on, elapsed, moisturePercent)
         ELSE hysteresisV1(on, elapsed, moisturePercent)

hysteresis(v, on, elapsed, moisturePercent) ==
    IF v = "v2"
    THEN hysteresisV2(on, elapsed, moisturePercent)
    ELSE hysteresisV1(on, elapsed, moisturePercent)

ActionLine(turnOn) == IF turnOn THEN Line("ACTION_ON") ELSE Line("ACTION_OFF")

\* v1 and r1 print the status on every tick; in v2 the call sits inside the
\* else branch of "if (!pumpOn)"
printsStatus(v, onAtEntry) == v # "v2" \/ onAtEntry

----------------------------------------------------------------------------
(* State machine *)

NoObs == [ call |-> "none", avg |-> -1, pct |-> -1, elapsed |-> -1,
           wasOn |-> FALSE, calls |-> << >> ]

\* what a board keeps and shows: the globals of the sketch, its two output
\* lines and the lines it printed in the latest call; paired tells whether a
\* second board is there at all
PowerOnTwin ==
    [ paired           |-> TRUE,
      samples          |-> [i \in 0 .. AVERAGE_SAMPLES - 1 |-> 0],
      sampleIndex      |-> 0,
      sampleBufferFull |-> FALSE,
      pumpOn           |-> FALSE,
      lastSampleMs     |-> 0,
      lastPumpChangeMs |-> 0,
      relayPin         |-> "unset",
      ledPin           |-> "unset",
      serial           |-> << >> ]

\* one board only
NoTwin == [PowerOnTwin EXCEPT !.paired = FALSE]

\* power-on: the globals as their initialisers leave them
PowerOn(variants, polarities, calibrations, raws) ==
    /\ variant \in variants
    /\ RELAY_ACTIVE_LOW \in polarities
    /\ \E c \in calibrations : dryValue = c[1] /\ wetValue = c[2]
    /\ pc = "boot"
    /\ clock = 0
    /\ soil \in raws
    /\ samples = [i \in 0 .. AVERAGE_SAMPLES - 1 |-> 0]
    /\ sampleIndex = 0
    /\ sampleBufferFull = FALSE
    /\ pumpOn = FALSE
    /\ lastSampleMs = 0
    /\ lastPumpChangeMs = 0
    /\ lastPumpStateChangeTime = 0
    /\ relayPin = "unset"
    /\ ledPin = "unset"
    /\ serial = << >>
    /\ obs = NoObs
    /\ divByZero = FALSE
    /\ sinceWrite = 0
    /\ onPeriods = 0
    /\ ticks = 0
    /\ soilChanges = 0
    /\ fed = << >>

Init == PowerOn(Variants, BOOLEAN, ValidCalibrations, RawValues) /\ twin = NoTwin

InvalidInit == PowerOn(Variants, {TRUE}, InvalidCalibrations, RawValues) /\ twin = NoTwin

CycleInit == PowerOn(Variants, {TRUE}, ValidCalibrations, CycleStartRaw) /\ twin = NoTwin

\* the value setup() leaves in lastPumpChangeMs, ms being millis() at boot
setupLastPumpChangeMs(v, ms) ==
    IF v = "v2"
    THEN LET first    == setPumpState(TRUE, FALSE, ms).lastPumpChangeMs
             preclear == U32Sub(ms, PUMP_COOLDOWN_MS)
             second   == setPumpState(TRUE, FALSE, ms).lastPumpChangeMs
         IN  second
    ELSE setPumpState(TRUE, FALSE, ms).lastPumpChangeMs

\* v2: the elapsed time that the value written by
\* "lastPumpChangeMs = millis() - PUMP_COOLDOWN_MS" yields at that millis()
setupPreClearElapsed(v, ms) ==
    IF v = "v2" THEN U32Sub(ms, U32Sub(ms, PUMP_COOLDOWN_MS)) ELSE -1

setupSerial(v, dry, wet) ==
    IF v = "v2"
    THEN << Line("BANNER"), Line("INFO") >> \o validateCalibration(dry, wet)
         \o << Line("BANNER"), Line("INFO"), Line("INFO") >>
    ELSE << Line("BANNER"), Line("INFO"), Line("INFO") >>

\* setup() on a board in state st, flashed with polarity activeLow: ms is
\* millis() at the call and r what analogRead returns
setup(v, activeLow, dry, wet, st, ms, r) ==
    LET p == setPumpState(activeLow, FALSE, ms)
        w == Prime(v, Window(st.samples, st.sampleIndex, st.sampleBufferFull),
                   r, AVERAGE_SAMPLES)
    IN  [ st EXCEPT !.pumpOn = p.pumpOn,
                    !.lastPumpChangeMs = setupLastPumpChangeMs(v, ms),
                    !.relayPin = p.relayPin,
                    !.ledPin = p.ledPin,
                    !.samples = w.samples,
                    !.sampleIndex = w.sampleIndex,
                    !.sampleBufferFull = w.sampleBufferFull,
                    !.serial = setupSerial(v, dry, wet) ]

Setup ==
    /\ pc = "boot"
    /\ twin' = IF twin.paired
               THEN setup(variant, ~RELAY_ACTIVE_LOW, dryValue, wetValue, twin,
                          clock, soil)
               ELSE twin
    /\ LET p == setPumpState(RELAY_ACTIVE_LOW, FALSE, clock)
           w == Prime(variant, Window(samples, sampleIndex, sampleBufferFull),
                      soil, AVERAGE_SAMPLES)
       IN  /\ pumpOn' = p.pumpOn
           /\ lastPumpChangeMs' = setupLastPumpChangeMs(variant, clock)
           /\ relayPin' = p.relayPin
           /\ ledPin' = p.ledPin
           /\ samples' = w.samples
           /\ sampleIndex' = w.sampleIndex
           /\ sampleBufferFull' = w.sampleBufferFull
    /\ serial' = setupSerial(variant, dryValue, wetValue)
    /\ clock' = clock + AVERAGE_SAMPLES * PRIME_DELAY_MS
    /\ sinceWrite' = AVERAGE_SAMPLES * PRIME_DELAY_MS
    /\ obs' = [NoObs EXCEPT !.call = "setup",
                            !.elapsed = setupPreClearElapsed(variant, clock)]
    /\ pc' = "run"
    /\ UNCHANGED << config, soil, lastSampleMs, lastPumpStateChangeTime,
                    divByZero, onPeriods, ticks, soilChanges, fed >>

\* time passes between two calls of loop(): d ms, up to one of the offsets
AdvanceDeltas(changeOffsets) ==
    { U32Sub(lastSampleMs, clock) + o : o \in SampleOffsets }
    \cup { U32Sub(lastPumpChangeMs, clock) + o : o \in changeOffsets }

TimePasses(d) ==
    /\ d > 0
    /\ clock + d <= MaxClock
    /\ clock' = clock + d
    /\ sinceWrite' = Min(sinceWrite + d, MaxClock)

\* loop() on a board in state st, flashed with polarity activeLow: now is
\* millis() at the call, r what analogRead returns, ubq what a division by
\* zero leaves
loop(v, activeLow, dry, wet, st, now, r, ubq) ==
    IF ~intervalElapsed(now, st.lastSampleMs)
    THEN [st EXCEPT !.serial = << >>]
    ELSE
      LET w == addSample(v, Window(st.samples, st.sampleIndex,
                                   st.sampleBufferFull), r)
          averageRaw == getAverageRaw(w, r)
          moisturePercent == moisturePercentFromRaw(v, averageRaw, dry, wet,
                                                    ubq)
          elapsed == U32Sub(now, st.lastPumpChangeMs)
          calls == hysteresis(v, st.pumpOn, elapsed, moisturePercent)
          final == IF calls = << >> THEN st.pumpOn ELSE calls[Len(calls)]
          p == setPumpState(activeLow, final, now)
          written == IF calls = << >>
                     THEN st
                     ELSE [ st EXCEPT !.pumpOn = p.pumpOn,
                                      !.lastPumpChangeMs = p.lastPumpChangeMs,
                                      !.relayPin = p.relayPin,
                                      !.ledPin = p.ledPin ]
      IN  [ written EXCEPT
              !.lastSampleMs = now,
              !.samples = w.samples,
              !.sampleIndex = w.sampleIndex,
              !.sampleBufferFull = w.sampleBufferFull,
              !.serial = [i \in 1 .. Len(calls) |-> ActionLine(calls[i])]
                         \o (IF printsStatus(v, st.pumpOn)
                             THEN << printStatus(v, r, averageRaw,
                                                 moisturePercent, final) >>
                             ELSE << >>) ]

\* loop() called before the sample interval has elapsed
LoopSkip ==
    /\ pc = "run"
    /\ \E d \in AdvanceDeltas(ChangeOffsets) :
        /\ TimePasses(d)
        /\ ~intervalElapsed(clock', lastSampleMs)
    /\ twin' = IF twin.paired
               THEN loop(variant, ~RELAY_ACTIVE_LOW, dryValue, wetValue, twin,
                         clock', soil, 0)
               ELSE twin
    /\ serial' = << >>
    /\ obs' = [NoObs EXCEPT !.call = "skip"]
    /\ UNCHANGED << config, pc, soil, samples, sampleIndex,
                    sampleBufferFull, pumpOn, lastSampleMs, lastPumpChangeMs,
                    lastPumpStateChangeTime, relayPin, ledPin, divByZero,
                    onPeriods, ticks, soilChanges, fed >>

\* loop() once the sample interval has elapsed: one control tick.
\* r is what analogRead returns
Tick(maxTicks, maxSoilChanges, raws, changeOffsets) ==
    /\ pc = "run"
    /\ ticks < maxTicks
    /\ \E d \in AdvanceDeltas(changeOffsets), r \in raws,
          ubq \in (IF mapDividesByZero(variant, dryValue, wetValue)
                   THEN DivZeroQuotients ELSE {0}) :
      \* each value is computed once, in the order of the statements of loop()
      \E w \in {addSample(variant, Window(samples, sampleIndex,
                                         sampleBufferFull), r)} :
      \E averageRaw \in {getAverageRaw(w, r)} :
      \E moisturePercent \in {moisturePercentFromRaw(variant, averageRaw,
                                                     dryValue, wetValue, ubq)} :
      \E calls \in {hysteresis(variant, pumpOn,
                               U32Sub(clock + d, lastPumpChangeMs),
                               moisturePercent)} :
        LET now == clock + d
            rawValue == r
            elapsed == U32Sub(now, lastPumpChangeMs)
            final == IF calls = << >> THEN pumpOn ELSE calls[Len(calls)]
            p == setPumpState(RELAY_ACTIVE_LOW, final, now)
        IN  /\ d > 0
            /\ clock + d <= MaxClock
            /\ clock' = now
            /\ intervalElapsed(now, lastSampleMs)
            /\ r = soil \/ soilChanges < maxSoilChanges
            /\ soil' = r
            /\ soilChanges' = IF r = soil THEN soilChanges ELSE soilChanges + 1
            /\ lastSampleMs' = now
            /\ samples' = w.samples
            /\ sampleIndex' = w.sampleIndex
            /\ sampleBufferFull' = w.sampleBufferFull
            /\ IF calls = << >>
               THEN /\ UNCHANGED << pumpOn, lastPumpChangeMs, relayPin,
                                    ledPin >>
                    /\ sinceWrite' = Min(sinceWrite + d, MaxClock)
               ELSE /\ pumpOn' = p.pumpOn
                    /\ lastPumpChangeMs' = p.lastPumpChangeMs
                    /\ relayPin' = p.relayPin
                    /\ ledPin' = p.ledPin
                    /\ sinceWrite' = 0
            /\ onPeriods' = onPeriods + Cardinality({ i \in 1 .. Len(calls) :
                                                      ~calls[i] /\ (IF i = 1 THEN pumpOn ELSE calls[i - 1]) })
            /\ serial' = [i \in 1 .. Len(calls) |-> ActionLine(calls[i])]
                         \o (IF printsStatus(variant, pumpOn)
                             THEN << printStatus(variant, rawValue,
                                                 averageRaw, moisturePercent,
                                                 final) >>
                             ELSE << >>)
            /\ obs' = [ call |-> "tick", avg |-> averageRaw,
                        pct |-> moisturePercent, elapsed |-> elapsed,
                        wasOn |-> pumpOn, calls |-> calls ]
            /\ divByZero' = (divByZero
                             \/ mapDividesByZero(variant, dryValue, wetValue))
            /\ twin' = IF twin.paired
                       THEN loop(variant, ~RELAY_ACTIVE_LOW, dryValue,
                                 wetValue, twin, now, r, ubq)
                       ELSE twin
    /\ ticks' = ticks + 1
    /\ UNCHANGED << config, pc, lastPumpStateChangeTime, fed >>

LoopTick == Tick(MaxTicks, MaxSoilChanges, RawValues, ChangeOffsets)

CycleTick ==
    Tick(MaxCycleTicks, MaxCycleSoilChanges, CycleRawValues, CycleChangeOffsets)

Next == Setup \/ LoopSkip \/ LoopTick

Spec == Init /\ [][Next]_vars

SpecInvalid == InvalidInit /\ [][Next]_vars

CycleNext == Setup \/ CycleTick

SpecCycle == CycleInit /\ [][CycleNext]_vars

----------------------------------------------------------------------------
(* The sketches of src/automatic_watering_system.ino *)

\* <<dryValue, wetValue>> as the sketch declares them
rootCalibration(v) ==
    IF v = "r1" THEN << 850, 420 >> ELSE << SENSOR_DRY_VALUE, SENSOR_WET_VALUE >>

RootInit ==
    /\ PowerOn(RootVariants, {TRUE}, { rootCalibration(v) : v \in RootVariants },
               RawValues)
    /\ << dryValue, wetValue >> = rootCalibration(variant)
    /\ twin = NoTwin

RootChangeOffsets == {MIN_PUMP_RUN_MS - 1, PUMP_COOLDOWN_MS}
MergedChangeOffsets == {MIN_PUMP_RUN_TIME_MS - 1, MIN_PUMP_RUN_TIME_MS}
SimpleChangeOffsets == {MIN_PUMP_ON_TIME_MS - 1, MIN_PUMP_ON_TIME_MS}

\* r1: setup() and loop() are those of the first sketch of src/src
FullSetup == variant = "r1" /\ Setup

FullSkip == variant = "r1" /\ LoopSkip

FullTick ==
    /\ variant = "r1"
    /\ Tick(MaxRootTicks, MaxRootSoilChanges, RawValues, RootChangeOffsets)

\* r2, r3: if (now - lastSampleTime < SAMPLE_INTERVAL_MS) return;
simpleIntervalElapsed(now, last) ==
    ~U32Lt(U32Sub(now, last), SIMPLE_SAMPLE_INTERVAL_MS)

\* one if/else of loop(): the call it makes, offMs and onMs being the two
\* minimum durations it tests
decide(on, elapsed, moisturePercent, offMs, onMs) ==
    IF ~on
    THEN IF U32Ge(elapsed, offMs) /\ moisturePercent <= DRY_THRESHOLD_PERCENT
         THEN << TRUE >> ELSE << >>
    ELSE IF U32Ge(elapsed, onMs)
            /\ moisturePercent >= SIMPLE_WET_THRESHOLD_PERCENT
         THEN << FALSE >> ELSE << >>

\* r2, r3: the status line loop() prints without the average
SimpleStatusLine(raw, moisturePercent, on) ==
    [ tag |-> "STATUS", raw |-> raw, avg |-> -1, pct |-> moisturePercent,
      pump |-> on ]

\* r3: setup() is setPump(false) and two lines; no priming
SimpleSetup ==
    /\ variant = "r3"
    /\ pc = "boot"
    /\ LET p == setPumpState(RELAY_ACTIVE_LOW, FALSE, clock)
       IN  /\ pumpOn' = p.pumpOn
           /\ lastPumpStateChangeTime' = p.lastPumpChangeMs
           /\ relayPin' = p.relayPin
           /\ ledPin' = p.ledPin
    /\ serial' = << Line("BANNER"), Line("INFO") >>
    /\ sinceWrite' = 0
    /\ obs' = [NoObs EXCEPT !.call = "setup"]
    /\ pc' = "run"
    /\ UNCHANGED << config, clock, soil, samples, sampleIndex,
                    sampleBufferFull, lastSampleMs, lastPumpChangeMs,
                    divByZero, onPeriods, ticks, soilChanges, fed,
                    twin >>

\* r2: setup() as the text has it: setRelayAndLed(false), two lines, the
\* priming loop, then the statements of the second setup(): setPump(false)
\* and two lines
MergedSetup ==
    /\ variant = "r2"
    /\ pc = "boot"
    /\ LET ms == clock + AVERAGE_SAMPLES * PRIME_DELAY_MS
           p1 == setPumpState(RELAY_ACTIVE_LOW, FALSE, clock)
           p2 == setPumpState(RELAY_ACTIVE_LOW, FALSE, ms)
           w  == Prime("r2", Window(samples, sampleIndex, sampleBufferFull),
                       soil, AVERAGE_SAMPLES)
       IN  /\ pumpOn' = p2.pumpOn
           /\ lastPumpChangeMs' = p1.lastPumpChangeMs
           /\ lastPumpStateChangeTime' = p2.lastPumpChangeMs
           /\ relayPin' = p2.relayPin
           /\ ledPin' = p2.ledPin
           /\ samples' = w.samples
           /\ sampleIndex' = w.sampleIndex
           /\ sampleBufferFull' = w.sampleBufferFull
           /\ clock' = ms
    /\ serial' = << Line("BANNER"), Line("INFO"), Line("BANNER"), Line("INFO") >>
    /\ sinceWrite' = 0
    /\ obs' = [NoObs EXCEPT !.call = "setup"]
    /\ pc' = "run"
    /\ UNCHANGED << config, soil, lastSampleMs, divByZero, onPeriods, ticks,
                    soilChanges, fed,
                    twin >>

\* r2, r3: time passes until one of the timers stands at one of the offsets
SimpleAdvanceDeltas ==
    { U32Sub(lastSampleMs, clock) + SIMPLE_SAMPLE_INTERVAL_MS }
    \cup { U32Sub(lastPumpStateChangeTime, clock) + o :
               o \in SimpleChangeOffsets }
    \cup (IF variant = "r2"
          THEN { U32Sub(lastPumpChangeMs, clock) + o :
                     o \in MergedChangeOffsets }
          ELSE {})

\* r2, r3: loop() called before the sample interval has elapsed
SimpleSkip ==
    /\ variant \in {"r2", "r3"}
    /\ pc = "run"
    /\ \E d \in SimpleAdvanceDeltas :
        /\ TimePasses(d)
        /\ ~simpleIntervalElapsed(clock', lastSampleMs)
    /\ serial' = << >>
    /\ obs' = [NoObs EXCEPT !.call = "skip"]
    /\ UNCHANGED << config, pc, soil, samples, sampleIndex,
                    sampleBufferFull, pumpOn, lastSampleMs, lastPumpChangeMs,
                    lastPumpStateChangeTime, relayPin, ledPin, divByZero,
                    onPeriods, ticks, soilChanges, fed,
                    twin >>

\* the ON periods a sequence of calls completes, on being the state before
completedOnPeriods(on, calls) ==
    Cardinality({ i \in 1 .. Len(calls) :
                    ~calls[i] /\ (IF i = 1 THEN on ELSE calls[i - 1]) })

\* r3: loop() once the sample interval has elapsed.  The status line is
\* printed before the decision, and the percentage is that of the raw sample
SimpleTick ==
    /\ variant = "r3"
    /\ pc = "run"
    /\ ticks < MaxRootTicks
    /\ \E d \in SimpleAdvanceDeltas, r \in RawValues :
        LET now == clock + d
            raw == r
            moisturePercent == moisturePercentFromRaw("r3", raw, dryValue,
                                                      wetValue, 0)
            status == SimpleStatusLine(raw, moisturePercent, pumpOn)
            elapsedSinceChange == U32Sub(now, lastPumpStateChangeTime)
            calls == decide(pumpOn, elapsedSinceChange, moisturePercent,
                            MIN_PUMP_OFF_TIME_MS, MIN_PUMP_ON_TIME_MS)
            p == setPumpState(RELAY_ACTIVE_LOW,
                              IF calls = << >> THEN pumpOn ELSE calls[1], now)
        IN  /\ d > 0
            /\ clock + d <= MaxClock
            /\ clock' = now
            /\ simpleIntervalElapsed(now, lastSampleMs)
            /\ r = soil \/ soilChanges < MaxRootSoilChanges
            /\ soil' = r
            /\ soilChanges' = IF r = soil THEN soilChanges ELSE soilChanges + 1
            /\ lastSampleMs' = now
            /\ IF calls = << >>
               THEN /\ UNCHANGED << pumpOn, lastPumpStateChangeTime, relayPin,
                                    ledPin >>
                    /\ sinceWrite' = Min(sinceWrite + d, MaxClock)
               ELSE /\ pumpOn' = p.pumpOn
                    /\ lastPumpStateChangeTime' = p.lastPumpChangeMs
                    /\ relayPin' = p.relayPin
                    /\ ledPin' = p.ledPin
                    /\ sinceWrite' = 0
            /\ onPeriods' = onPeriods + completedOnPeriods(pumpOn, calls)
            /\ serial' = << status >>
                         \o [i \in 1 .. Len(calls) |-> ActionLine(calls[i])]
            /\ obs' = [ call |-> "tick", avg |-> -1, pct |-> moisturePercent,
                        elapsed |-> elapsedSinceChange, wasOn |-> pumpOn,
                        calls |-> calls ]
    /\ ticks' = ticks + 1
    /\ UNCHANGED << config, pc, samples, sampleIndex, sampleBufferFull,
                    lastPumpChangeMs, divByZero, fed,
                    twin >>

\* r2: loop() once the sample interval has elapsed, as the text has it: the
\* decision on the average through setRelayAndLed(), which prints nothing,
\* the status line with the average, the percentage of the raw sample, the
\* status line without the average, the decision on that percentage
\* through setPump()
MergedTick ==
    /\ variant = "r2"
    /\ pc = "run"
    /\ ticks < MaxRootTicks
    /\ \E d \in SimpleAdvanceDeltas, r \in RawValues :
        LET now == clock + d
            raw == r
            w == addSample("r2", Window(samples, sampleIndex,
                                        sampleBufferFull), raw)
            avgRaw == getAverageRaw(w, r)
            moisturePercent == moisturePercentFromRaw("r2", avgRaw, dryValue,
                                                      wetValue, 0)
            timeSincePumpChange == U32Sub(now, lastPumpChangeMs)
            calls1 == decide(pumpOn, timeSincePumpChange, moisturePercent,
                             MERGED_PUMP_COOLDOWN_MS, MIN_PUMP_RUN_TIME_MS)
            on1 == IF calls1 = << >> THEN pumpOn ELSE calls1[1]
            status1 == StatusLineR1(raw, avgRaw, moisturePercent, on1)
            moisturePercent2 == moisturePercentFromRaw("r2", raw, dryValue,
                                                       wetValue, 0)
            status2 == SimpleStatusLine(raw, moisturePercent2, on1)
            elapsedSinceChange == U32Sub(now, lastPumpStateChangeTime)
            calls2 == decide(on1, elapsedSinceChange, moisturePercent2,
                             MIN_PUMP_OFF_TIME_MS, MIN_PUMP_ON_TIME_MS)
            on2 == IF calls2 = << >> THEN on1 ELSE calls2[1]
            calls == calls1 \o calls2
            p == setPumpState(RELAY_ACTIVE_LOW, on2, now)
        IN  /\ d > 0
            /\ clock + d <= MaxClock
            /\ clock' = now
            /\ simpleIntervalElapsed(now, lastSampleMs)
            /\ r = soil \/ soilChanges < MaxRootSoilChanges
            /\ soil' = r
            /\ soilChanges' = IF r = soil THEN soilChanges ELSE soilChanges + 1
            /\ lastSampleMs' = now
            /\ samples' = w.samples
            /\ sampleIndex' = w.sampleIndex
            /\ sampleBufferFull' = w.sampleBufferFull
            /\ lastPumpChangeMs' =
                   IF calls1 = << >> THEN lastPumpChangeMs ELSE now
            /\ lastPumpStateChangeTime' =
                   IF calls2 = << >> THEN lastPumpStateChangeTime ELSE now
            /\ IF calls = << >>
               THEN /\ UNCHANGED << pumpOn, relayPin, ledPin >>
                    /\ sinceWrite' = Min(sinceWrite + d, MaxClock)
               ELSE /\ pumpOn' = p.pumpOn
                    /\ relayPin' = p.relayPin
                    /\ ledPin' = p.ledPin
                    /\ sinceWrite' = 0
            /\ onPeriods' = onPeriods + completedOnPeriods(pumpOn, calls)
            /\ serial' = << status1, status2 >>
                         \o [i \in 1 .. Len(calls2) |-> ActionLine(calls2[i])]
            /\ obs' = [ call |-> "tick", avg |-> avgRaw,
                        pct |-> moisturePercent,
                        elapsed |-> timeSincePumpChange, wasOn |-> pumpOn,
                        calls |-> calls ]
    /\ ticks' = ticks + 1
    /\ UNCHANGED << config, pc, divByZero, fed,
                    twin >>

RootNext ==
    \/ FullSetup
    \/ MergedSetup
    \/ SimpleSetup
    \/ FullSkip
    \/ SimpleSkip
    \/ FullTick
    \/ MergedTick
    \/ SimpleTick

SpecRoot == RootInit /\ [][RootNext]_vars

----------------------------------------------------------------------------
(* The percent mapper on its own *)

\* raw values: a small range, and readings around the shipped calibrations
MapperRaws ==
    (-2 .. MaxMapperRaw)
    \cup {399, 400, 401, 419, 420, 421, 635, 849, 850, 851, 1023}

\* <<dryValue, wetValue>>: every valid pair of the small range, and the
\* shipped ones
MapperCalibrations ==
    { c \in (0 .. MaxMapperRaw) \X (0 .. MaxMapperRaw) : c[1] > c[2] }
    \cup { << 850, 420 >>, << SENSOR_DRY_VALUE, SENSOR_WET_VALUE >> }

MapperInit == PowerOn(Variants, {TRUE}, MapperCalibrations, {0}) /\ twin = NoTwin

\* moisturePercentFromRaw(r) is called
MapperCall ==
    /\ pc = "boot"
    /\ \E r \in MapperRaws :
        /\ soil' = r
        /\ obs' = [NoObs EXCEPT
                       !.call = "map",
                       !.avg = r,
                       !.pct = moisturePercentFromRaw(variant, r, dryValue,
                                                      wetValue, 0)]
    /\ UNCHANGED << config, pc, clock, samples, sampleIndex, sampleBufferFull,
                    pumpOn, lastSampleMs, lastPumpChangeMs,
                    lastPumpStateChangeTime, relayPin, ledPin, serial,
                    divByZero, sinceWrite, onPeriods, ticks, soilChanges, fed,
                    twin >>

SpecMapper == MapperInit /\ [][MapperCall]_vars

----------------------------------------------------------------------------
(* The sample window on its own *)

SamplerRaws == {450, 1023}

SamplerInit == PowerOn(Variants, {TRUE}, ValidCalibrations, {0}) /\ twin = NoTwin

\* addSample(r) is called on the window, then getAverageRaw()
AddSampleCall ==
    /\ pc = "boot"
    /\ Len(fed) < MaxFed
    /\ \E r \in SamplerRaws :
        LET w == addSample(variant, Window(samples, sampleIndex,
                                           sampleBufferFull), r)
        IN  /\ samples' = w.samples
            /\ sampleIndex' = w.sampleIndex
            /\ sampleBufferFull' = w.sampleBufferFull
            /\ fed' = Append(fed, r)
            /\ obs' = [NoObs EXCEPT !.call = "addSample",
                                    !.avg = getAverageRaw(w, soil)]
    /\ UNCHANGED << config, pc, clock, soil, pumpOn, lastSampleMs,
                    lastPumpChangeMs, lastPumpStateChangeTime, relayPin,
                    ledPin, serial, divByZero, sinceWrite, onPeriods, ticks,
                    soilChanges, twin >>

SpecSampler == SamplerInit /\ [][AddSampleCall]_vars

----------------------------------------------------------------------------
(* The controller polled without pause: loop() is called again and again,  *)
(* so a control tick is executed every SAMPLE_INTERVAL_MS.                 *)

\* readings that map to the two thresholds under the shipped calibration:
\* 698 is 35%, 612 is 55%
LiveRaws == {612, 698}

LiveInit == PowerOn(Variants, {TRUE}, ValidCalibrations, LiveRaws) /\ twin = NoTwin

\* the tick is executed as soon as the sample interval has elapsed
LiveTick == Tick(MaxLiveTicks, MaxLiveSoilChanges, LiveRaws, {})

LiveNext == Setup \/ LiveTick

\* loop() is called for ever, so a tick that is due is executed
SpecLive == LiveInit /\ [][LiveNext]_vars /\ WF_vars(LiveTick)

----------------------------------------------------------------------------
(* Two boards, one flashed with RELAY_ACTIVE_LOW true and one with false,   *)
(* on the same clock and the same sensor.                                  *)

PairInit ==
    /\ PowerOn(Variants, BOOLEAN, ValidCalibrations, RawValues)
    /\ twin = PowerOnTwin

SpecPair == PairInit /\ [][Next]_vars

----------------------------------------------------------------------------
(* The millisecond clock wrapping from 2^32 - 1 to 0.  A clock value of    *)
(* 2^31 and more is held as the negative number congruent to it, so the     *)
(* clock passes from -1 to 0 at the wrap and, near the wrap, the difference *)
(* of two held values is the real time between them.                        *)

\* ms left before the wrap
WrapLead == 700

\* ms since the latest control tick
WrapSinceTick == 400

\* 0: 100%, 690: 37%, 700: 34%, 1023: 0% under the shipped calibration
WrapRaws == {0, 690, 700, 1023}

\* how the board came to be WrapLead ms before the wrap:
\*   the pump ON for 100 ms short of MIN_PUMP_RUN_MS at the wrap, dry soil;
\*   the pump OFF for 100 ms short of PUMP_COOLDOWN_MS at the wrap, moist soil;
\*   the pump OFF ever since setup() wrote lastPumpChangeMs at millis() = 0,
\*   moist soil: sinceWrite is at its cap
WrapHistories ==
    { [ on |-> TRUE, soil |-> 700,
        since |-> MIN_PUMP_RUN_MS - WrapLead - 100 ],
      [ on |-> FALSE, soil |-> 690,
        since |-> PUMP_COOLDOWN_MS - WrapLead - 100 ],
      [ on |-> FALSE, soil |-> 690, since |-> MaxClock ] }

\* the board running, WrapLead ms before the wrap, the reading unchanged for
\* more than a window
WrapRunning(h) ==
    LET w == Prime(variant,
                   Window([i \in 0 .. AVERAGE_SAMPLES - 1 |-> 0], 0, FALSE),
                   h.soil, AVERAGE_SAMPLES)
        p == setPumpState(RELAY_ACTIVE_LOW, h.on, 0)
    IN  /\ variant \in Variants
        /\ RELAY_ACTIVE_LOW = TRUE
        /\ \E c \in ValidCalibrations : dryValue = c[1] /\ wetValue = c[2]
        /\ pc = "run"
        /\ clock = 0 - WrapLead
        /\ soil = h.soil
        /\ samples = w.samples
        /\ sampleIndex = w.sampleIndex
        /\ sampleBufferFull = w.sampleBufferFull
        /\ pumpOn = h.on
        /\ lastSampleMs = clock - WrapSinceTick
        /\ lastPumpChangeMs = (IF h.since = MaxClock THEN 0
                                ELSE clock - h.since)
        /\ lastPumpStateChangeTime = 0
        /\ relayPin = p.relayPin
        /\ ledPin = p.ledPin
        /\ serial = << >>
        /\ obs = NoObs
        /\ divByZero = FALSE
        /\ sinceWrite = h.since
        /\ onPeriods = 0
        /\ ticks = 0
        /\ soilChanges = 0
        /\ fed = << >>
        /\ twin = NoTwin

\* power-on, or the board running shortly before the wrap
WrapInit ==
    \/ PowerOn(Variants, {TRUE}, ValidCalibrations, WrapRaws) /\ twin = NoTwin
    \/ \E h \in WrapHistories : WrapRunning(h)

WrapTick == Tick(MaxWrapTicks, MaxWrapSoilChanges, WrapRaws, ChangeOffsets)

WrapNext == Setup \/ LoopSkip \/ WrapTick

SpecWrap == WrapInit /\ [][WrapNext]_vars

----------------------------------------------------------------------------
(* Properties *)

\* the step is an executed control tick
IsTick == ticks' = ticks + 1

\* real time since the outputs were last written, at the call being made
RealElapsed == sinceWrite + (clock' - clock)

HasLine(tag) == \E i \in 1 .. Len(serial) : serial[i].tag = tag

\* C1: a control tick executed while the pump is OFF and less than the
\* cooldown has elapsed since the last pump state change leaves the pump
\* OFF, whatever the moisture percentage (0% included).
C1_CooldownBlocksStart ==
    [][ (IsTick /\ ~pumpOn /\ RealElapsed < PUMP_COOLDOWN_MS) => ~pumpOn' ]_vars

\* a tick at elapsed = cooldown - 1 with moisture 0% has left the pump OFF
C1_Witness ==
    /\ obs.call = "tick" /\ ~obs.wasOn /\ ~pumpOn
    /\ obs.elapsed = PUMP_COOLDOWN_MS - 1
    /\ obs.pct = 0
    /\ dryValue > wetValue

\* C2: a control tick executed while the pump is ON and less than the
\* minimum run time has elapsed since the last pump state change leaves the
\* pump ON, whatever the moisture percentage (100% included).
C2_MinRunBlocksStop ==
    [][ (IsTick /\ pumpOn /\ RealElapsed < MIN_PUMP_RUN_MS) => pumpOn' ]_vars

\* a tick at elapsed = minimum run - 1 with moisture 100% has left the pump ON
C2_Witness ==
    /\ obs.call = "tick" /\ obs.wasOn /\ pumpOn
    /\ obs.elapsed = MIN_PUMP_RUN_MS - 1
    /\ obs.pct = 100
    /\ dryValue > wetValue

\* C3 (as claimed): with an invalid calibration (dryValue <= wetValue) the
\* sketch that returns 0% for it never turns the pump ON.
C3_InvalidCalibrationNeverStarts ==
    (variant = "v2" /\ dryValue <= wetValue) => ~pumpOn

\* C4: after setup() and before any control tick the pump state is OFF, the
\* LED line is LOW and the relay line is at its inactive level: HIGH when the
\* relay is active-low, LOW when it is active-high.
C4_StartupSafe ==
    (pc = "run" /\ ticks = 0) =>
        /\ ~pumpOn
        /\ ledPin = "LOW"
        /\ RELAY_ACTIVE_LOW => relayPin = "HIGH"
        /\ ~RELAY_ACTIVE_LOW => relayPin = "LOW"

\* setup() has run on an active-high board and no tick has been executed
C4_Witness ==
    /\ pc = "run" /\ ticks = 0 /\ obs.call = "setup"
    /\ ~RELAY_ACTIVE_LOW
    /\ relayPin = "LOW"

\* C5: a control tick whose moisture percentage lies strictly between the dry
\* and the wet threshold changes the pump state neither from OFF nor from ON,
\* whatever the elapsed time.
C5_Deadband ==
    [][ (IsTick /\ obs'.pct > DRY_THRESHOLD_PERCENT
                /\ obs'.pct < WET_THRESHOLD_PERCENT)
        => (pumpOn' = pumpOn /\ obs'.calls = << >>) ]_vars

\* a tick in the deadband with the pump ON and the minimum run time over
C5_Witness ==
    /\ obs.call = "tick" /\ obs.wasOn /\ pumpOn
    /\ obs.pct > DRY_THRESHOLD_PERCENT /\ obs.pct < WET_THRESHOLD_PERCENT
    /\ obs.elapsed >= MIN_PUMP_RUN_MS

\* the tick of the end-to-end scenario: shipped calibration, pump OFF since
\* t = 0, tick at t = 31000 ms, window average avg
ScenarioStart(avg) ==
    /\ dryValue = 850 /\ wetValue = 420
    /\ obs.call = "tick" /\ ~obs.wasOn
    /\ clock = 31000 /\ obs.elapsed = 31000
    /\ obs.avg = avg

\* C6 (as claimed): in the end-to-end scenario a window average of raw 450
\* maps to about 7% and the tick at t = 31000 ms turns the pump ON.
C6_Original ==
    ScenarioStart(450) => (obs.pct \in 6 .. 8 /\ pumpOn)

\* C6 (amended): in the end-to-end scenario a window average of raw 450 maps
\* to 93% and the tick at t = 31000 ms leaves the pump OFF; a window average
\* of raw 740 maps to 25% and that tick turns the pump ON.
C6_ScenarioStart ==
    /\ ScenarioStart(450) => (obs.pct = 93 /\ ~pumpOn)
    /\ ScenarioStart(740) => (obs.pct = 25 /\ pumpOn
                              /\ lastPumpChangeMs = 31000)

\* the tick at t = 31000 ms with window average 450 has been executed
C6_Witness == ScenarioStart(450) /\ ticks = 1

\* C7: with the pump turned ON at t = 31000 ms, a control tick at
\* t = 35999 ms with moisture 60% leaves the pump ON and a control tick at
\* t = 36001 ms with moisture 60% turns it OFF.
C7_ScenarioStop ==
    [][ (IsTick /\ pumpOn /\ lastPumpChangeMs = 31000 /\ obs'.pct = 60)
        => /\ clock' = 35999 => pumpOn'
           /\ clock' = 36001 => (~pumpOn' /\ lastPumpChangeMs' = 36001) ]_vars

\* the tick at t = 36001 ms with moisture 60% has turned the pump OFF
C7_Witness ==
    /\ obs.call = "tick" /\ obs.wasOn /\ obs.pct = 60
    /\ obs.elapsed = MIN_PUMP_RUN_MS + 1
    /\ clock = 36001 /\ ~pumpOn

\* C8 (as claimed): with an invalid calibration every control tick's mapper
\* call returns 0, prints an error on that call, and never divides by zero.
C8_InvalidCalibrationReported ==
    (dryValue <= wetValue /\ obs.call = "tick") =>
        /\ obs.pct = 0
        /\ HasLine("CAL_ERROR")
        /\ ~divByZero

\* C9: every ON period of the pump lasts at least the minimum run time, and
\* every OFF period that follows an ON period lasts at least the cooldown;
\* no tick writes the outputs twice.
C9_PeriodsRespectTimers ==
    [][ /\ (pumpOn /\ ~pumpOn') => RealElapsed >= MIN_PUMP_RUN_MS
        /\ (~pumpOn /\ pumpOn' /\ onPeriods >= 1)
               => RealElapsed >= PUMP_COOLDOWN_MS
        /\ IsTick => Len(obs'.calls) <= 1 ]_vars

\* the first sketch has turned the pump ON again after a complete ON period
\* and the OFF period that followed it
C9_Witness ==
    /\ variant = "v1"
    /\ obs.call = "tick" /\ ~obs.wasOn /\ pumpOn
    /\ onPeriods >= 1

\* C10 (as claimed): the cooldown is pre-cleared at startup, so the first
\* control tick after boot turns the pump ON when the moisture percentage is
\* at or below the dry threshold.
C10_BootPreClear ==
    (variant = "v2" /\ obs.call = "tick" /\ ticks = 1
        /\ obs.pct <= DRY_THRESHOLD_PERCENT) => pumpOn

\* the status lines the latest handler invocation printed
StatusLines == { i \in 1 .. Len(serial) : serial[i].tag = "STATUS" }

\* C11 (as claimed): on a control tick that changes the pump state, every
\* status record the tick emits reports the pump state as it is after the
\* tick's decision, never the state before it.
C11_StatusAfterDecision ==
    (obs.call = "tick" /\ obs.calls # << >>) =>
        \A i \in StatusLines : serial[i].pump = pumpOn

\* the entries of the window that getAverageRaw() sums
AveragedSlots ==
    0 .. (IF sampleBufferFull THEN AVERAGE_SAMPLES ELSE sampleIndex) - 1

\* C12 (as claimed): on every executed control tick the sample read in the
\* tick is among the averaged entries of the window, and the percentage the
\* decision uses is the mapping of the average of that window.
C12_DecisionUsesFreshAverage ==
    obs.call = "tick" =>
        /\ \E i \in AveragedSlots : samples[i] = soil
        /\ obs.avg = getAverageRaw(Window(samples, sampleIndex,
                                          sampleBufferFull), soil)
        /\ obs.pct = moisturePercentFromRaw(variant, obs.avg, dryValue,
                                            wetValue, 0)

\* the transition events the latest handler invocation printed
ActionLines ==
    { i \in 1 .. Len(serial) : serial[i].tag \in {"ACTION_ON", "ACTION_OFF"} }

\* C13 (as claimed): a control tick that changes the pump state emits
\* exactly one transition event, and a control tick that leaves the pump
\* state as it was emits none.
C13_OneEventPerTransition ==
    obs.call = "tick" =>
        Cardinality(ActionLines) = (IF pumpOn # obs.wasOn THEN 1 ELSE 0)

\* C14 (as claimed): after every executed control tick a status record has
\* been emitted that carries the raw sample read in the tick, the averaged
\* raw value, the moisture percentage and the pump state.
C14_StatusHasFourValues ==
    obs.call = "tick" =>
        \E i \in StatusLines :
            /\ serial[i].raw = soil
            /\ serial[i].avg >= 0 /\ serial[i].avg = obs.avg
            /\ serial[i].pct = obs.pct
            /\ serial[i].pump = pumpOn

\* C15: in every state after setup() the LED line is HIGH exactly when the
\* pump state is ON, and the relay line is at its active level (LOW on an
\* active-low board, HIGH on an active-high one) exactly when the pump state
\* is ON.
C15_OutputsMirrorPump ==
    pc = "run" =>
        /\ (ledPin = "HIGH") = pumpOn
        /\ (ledPin = "LOW") = ~pumpOn
        /\ RELAY_ACTIVE_LOW =>
               (relayPin = "LOW") = pumpOn /\ (relayPin = "HIGH") = ~pumpOn
        /\ ~RELAY_ACTIVE_LOW =>
               (relayPin = "HIGH") = pumpOn /\ (relayPin = "LOW") = ~pumpOn

\* a tick has turned the pump ON on an active-high board
C15_Witness ==
    /\ obs.call = "tick" /\ ~obs.wasOn /\ pumpOn
    /\ ~RELAY_ACTIVE_LOW
    /\ relayPin = "HIGH" /\ ledPin = "HIGH"

\* C16: a call of loop() at which less than the sample interval has elapsed
\* since the last executed tick leaves the sample window, its cursor and
\* filled flag, the pump state, both timestamps and both output lines as
\* they were and prints nothing; so no tick is executed less than one
\* sample interval after the previous one.
C16_SkipChangesNothing ==
    [][ (pc = "run" /\ clock' - lastSampleMs < SAMPLE_INTERVAL_MS)
        => /\ UNCHANGED << samples, sampleIndex, sampleBufferFull, pumpOn,
                           lastPumpChangeMs, lastSampleMs, relayPin, ledPin,
                           ticks >>
           /\ serial' = << >> ]_vars

\* loop() has been called 1 ms after an executed tick, with the pump ON
C16_Witness ==
    /\ obs.call = "skip" /\ ticks >= 1
    /\ clock - lastSampleMs = 1
    /\ pumpOn

\* C17: for every raw input, inside or outside the calibration interval,
\* and every valid calibration (dryValue > wetValue) the percent mapper
\* returns a value in 0 .. 100.
C17_PercentInRange ==
    (obs.call = "map" /\ dryValue > wetValue) => obs.pct \in 0 .. 100

\* the mapper has been called with a raw value above dryValue
C17_Witness ==
    /\ obs.call = "map" /\ dryValue > wetValue
    /\ obs.avg > dryValue
    /\ obs.pct = 0

\* C18: for every valid calibration the percent mapper returns exactly 0 for
\* raw = dryValue and exactly 100 for raw = wetValue.
C18_Endpoints ==
    (obs.call = "map" /\ dryValue > wetValue) =>
        /\ obs.avg = dryValue => obs.pct = 0
        /\ obs.avg = wetValue => obs.pct = 100

\* the mapper has been called with raw = wetValue of the shipped calibration
C18_Witness ==
    /\ obs.call = "map"
    /\ dryValue = 850 /\ wetValue = 420
    /\ obs.avg = wetValue
    /\ obs.pct = 100

\* C19: for every valid calibration and raw values r1 <= r2 in
\* wetValue .. dryValue, the percentage of r1 is at least that of r2.
C19_NonIncreasing ==
    [][ (/\ obs.call = "map" /\ obs'.call = "map"
         /\ dryValue > wetValue
         /\ wetValue <= obs.avg /\ obs.avg <= obs'.avg
         /\ obs'.avg <= dryValue)
        => obs.pct >= obs'.pct ]_vars

\* the mapper has returned a truncated quotient for a raw value strictly
\* inside the calibration interval
C19_Witness ==
    /\ obs.call = "map" /\ dryValue > wetValue
    /\ wetValue < obs.avg /\ obs.avg < dryValue
    /\ obs.pct > 0 /\ obs.pct < 100
    /\ obs.pct * (dryValue - wetValue) # (dryValue - obs.avg) * 100

RECURSIVE SeqSum(_)
SeqSum(q) == IF q = << >> THEN 0 ELSE q[1] + SeqSum(Tail(q))

\* C20 (as claimed): starting from an empty window, after k calls of
\* addSample() with 1 <= k <= AVERAGE_SAMPLES the average is the truncated
\* mean of exactly the k values given.
C20_AverageOfFed ==
    (obs.call = "addSample" /\ Len(fed) \in 1 .. AVERAGE_SAMPLES) =>
        obs.avg = CDiv(SeqSum(fed), Len(fed))

\* the latest tick read a moisture percentage above the dry threshold
SeenNotDry == obs.call = "tick" /\ obs.pct > DRY_THRESHOLD_PERCENT

\* the latest tick read a moisture percentage below the wet threshold
SeenNotWet == obs.call = "tick" /\ obs.pct < WET_THRESHOLD_PERCENT

\* C21: with control ticks executed every sample interval, whenever the
\* pump is OFF (and the cooldown ends within the horizon of the model) the
\* pump is turned ON later or a tick reads a moisture percentage above the
\* dry threshold: the pump does not stay OFF for ever while the percentage
\* stays at or below the dry threshold.
C21_EventuallyOn ==
    (/\ pc = "run" /\ ~pumpOn
     /\ lastPumpChangeMs + PUMP_COOLDOWN_MS + SAMPLE_INTERVAL_MS <= MaxClock)
    ~> (pumpOn \/ SeenNotDry)

\* a tick has turned the pump ON after ticks that left it OFF because the
\* soil was wet, the cooldown being long over
C21_Witness ==
    /\ obs.call = "tick" /\ ~obs.wasOn /\ pumpOn
    /\ obs.elapsed > PUMP_COOLDOWN_MS
    /\ soilChanges = 1

\* C22: with control ticks executed every sample interval, whenever the
\* pump is ON (and the minimum run time ends within the horizon of the
\* model) the pump is turned OFF later or a tick reads a moisture percentage
\* below the wet threshold: the pump does not stay ON for ever while the
\* percentage stays at or above the wet threshold.
C22_EventuallyOff ==
    (/\ pc = "run" /\ pumpOn
     /\ lastPumpChangeMs + MIN_PUMP_RUN_MS + SAMPLE_INTERVAL_MS <= MaxClock)
    ~> (~pumpOn \/ SeenNotWet)

\* a tick has turned the pump OFF
C22_Witness ==
    /\ obs.call = "tick" /\ obs.wasOn /\ ~pumpOn
    /\ obs.elapsed >= MIN_PUMP_RUN_MS
    /\ obs.pct >= WET_THRESHOLD_PERCENT

\* C23: both guards are inclusive and sufficient.  A tick executed with the
\* pump OFF, at least the cooldown (the cooldown itself included) since the
\* last write of the outputs and a moisture percentage at or below the dry
\* threshold turns the pump ON; a tick executed with the pump ON, at least
\* the minimum run time since the last write and a percentage at or above
\* the wet threshold turns the pump OFF.
C23_GuardsSufficient ==
    [][ IsTick =>
          /\ (~pumpOn /\ RealElapsed >= PUMP_COOLDOWN_MS
                 /\ obs'.pct <= DRY_THRESHOLD_PERCENT) => pumpOn'
          /\ (pumpOn /\ RealElapsed >= MIN_PUMP_RUN_MS
                 /\ obs'.pct >= WET_THRESHOLD_PERCENT) => ~pumpOn' ]_vars

\* a tick has turned the pump OFF exactly at the end of the minimum run
\* time with the percentage exactly at the wet threshold
C23_Witness ==
    /\ obs.call = "tick" /\ obs.wasOn /\ ~pumpOn
    /\ obs.elapsed = MIN_PUMP_RUN_MS
    /\ obs.pct = WET_THRESHOLD_PERCENT
    /\ onPeriods >= 1

\* C24: once setup() has returned, a step that changes the pump state sets
\* the last-transition timestamp to the current time, and a step that does
\* not change the pump state (a tick that decides nothing, or a call of
\* loop() before the sample interval has elapsed) leaves the pump state, the
\* timestamp, the relay line and the LED line as they were.
C24_TimestampFrame ==
    [][ pc = "run" =>
          /\ pumpOn' # pumpOn => lastPumpChangeMs' = clock'
          /\ pumpOn' = pumpOn =>
                UNCHANGED << pumpOn, lastPumpChangeMs, relayPin, ledPin >> ]_vars

\* a tick has sampled, averaged and mapped without a transition while the
\* pump was ON, the timestamp still being that of the start
C24_Witness ==
    /\ obs.call = "tick" /\ obs.calls = << >>
    /\ obs.wasOn /\ pumpOn
    /\ lastPumpChangeMs # clock
    /\ \E i \in 0 .. AVERAGE_SAMPLES - 1 : samples[i] = soil

\* C25 (as claimed): after any number of calls of addSample() the cursor is
\* within 0 .. AVERAGE_SAMPLES - 1 and equals the number of calls modulo
\* AVERAGE_SAMPLES, the latest call has written the slot the cursor pointed
\* at, and the filled flag is true exactly when at least AVERAGE_SAMPLES
\* samples have been added.
C25_CursorAndFlag ==
    obs.call = "addSample" =>
        /\ sampleIndex \in 0 .. AVERAGE_SAMPLES - 1
        /\ sampleIndex = Len(fed) % AVERAGE_SAMPLES
        /\ samples[(Len(fed) - 1) % AVERAGE_SAMPLES] = fed[Len(fed)]
        /\ sampleBufferFull = (Len(fed) >= AVERAGE_SAMPLES)

\* the AVERAGE_SAMPLES values given last
LastFed == SubSeq(fed, Len(fed) - AVERAGE_SAMPLES + 1, Len(fed))

\* C26 (as claimed): once AVERAGE_SAMPLES samples have been added, after
\* every further call of addSample() the average is the truncated mean of
\* exactly the AVERAGE_SAMPLES values given last.
C26_AverageOfLastN ==
    (obs.call = "addSample" /\ Len(fed) >= AVERAGE_SAMPLES) =>
        obs.avg = CDiv(SeqSum(LastFed), AVERAGE_SAMPLES)

\* C27 (as claimed): once setup() has returned, the filled flag of the
\* sample window is set, and before the first control tick every one of the
\* AVERAGE_SAMPLES slots holds a reading taken by setup(); a tick then
\* decides on the average of AVERAGE_SAMPLES entries.
C27_PrimedBeforeFirstTick ==
    pc = "run" =>
        /\ sampleBufferFull
        /\ ticks = 0 => \A i \in 0 .. AVERAGE_SAMPLES - 1 : samples[i] = soil
        /\ obs.call = "tick" =>
              obs.avg = CDiv(SumFirst(samples, AVERAGE_SAMPLES),
                             AVERAGE_SAMPLES)

\* C28: for every valid calibration a raw value outside the calibrated
\* range is clamped and not rejected: the mapper returns 100 for every raw
\* value at or below wetValue and 0 for every raw value at or above
\* dryValue, nothing is printed, no division by zero is met and the pump
\* and its outputs stay as setup() found them.
C28_OutOfRangeClamped ==
    (obs.call = "map" /\ dryValue > wetValue) =>
        /\ obs.avg <= wetValue => obs.pct = 100
        /\ obs.avg >= dryValue => obs.pct = 0
        /\ serial = << >> /\ ~divByZero
        /\ ~pumpOn /\ lastPumpChangeMs = 0

\* the mapper has been called with a raw value below wetValue of the
\* shipped calibration
C28_Witness ==
    /\ obs.call = "map"
    /\ dryValue = 850 /\ wetValue = 420
    /\ obs.avg < wetValue /\ obs.avg >= 0
    /\ obs.pct = 100

\* C29: two boards that differ in RELAY_ACTIVE_LOW only and see the same
\* clock and the same readings have, after setup() and after every call of
\* loop(), the same pump state, the same last-transition timestamp, the same
\* LED level, the same sample window and the same printed lines; their
\* relay lines carry opposite levels.
C29_PolarityOnlyRelay ==
    (pc = "run" /\ twin.paired) =>
        /\ twin.pumpOn = pumpOn
        /\ twin.lastPumpChangeMs = lastPumpChangeMs
        /\ twin.lastSampleMs = lastSampleMs
        /\ twin.ledPin = ledPin
        /\ twin.serial = serial
        /\ twin.samples = samples
        /\ twin.sampleIndex = sampleIndex
        /\ twin.sampleBufferFull = sampleBufferFull
        /\ \/ relayPin = "LOW" /\ twin.relayPin = "HIGH"
           \/ relayPin = "HIGH" /\ twin.relayPin = "LOW"

\* both boards have turned their pumps ON in the same tick and printed the
\* same status line, the active-high one being the board of the variables
C29_Witness ==
    /\ twin.paired /\ ~RELAY_ACTIVE_LOW
    /\ obs.call = "tick" /\ ~obs.wasOn
    /\ pumpOn /\ twin.pumpOn
    /\ relayPin = "HIGH" /\ twin.relayPin = "LOW"
    /\ HasLine("STATUS") /\ twin.serial = serial

\* the real time since the outputs were last written is known exactly: it
\* is below the cap of sinceWrite, far less than 2^32 ms
KnownElapsed == sinceWrite < MaxClock

\* C30 (as claimed): the guards work on the real elapsed times across the
\* wrap of the clock.  A call of loop() executes a tick exactly when at
\* least the sample interval has passed since the latest tick; a tick with
\* the pump OFF starts it exactly when at least the cooldown has really
\* passed since the last write and the percentage is at or below the dry
\* threshold; a tick with the pump ON stops it exactly when at least the
\* minimum run time has really passed and the percentage is at or above the
\* wet threshold; the value of the boot pre-clear yields an elapsed time of
\* at least the cooldown.
C30_Original ==
    [][ /\ (obs'.call = "setup" /\ variant = "v2") =>
              \/ obs'.elapsed < 0
              \/ obs'.elapsed >= PUMP_COOLDOWN_MS
        /\ pc = "run" =>
            /\ IsTick <=> (clock' - lastSampleMs >= SAMPLE_INTERVAL_MS)
            /\ (IsTick /\ ~pumpOn) =>
                  (pumpOn' <=> /\ RealElapsed >= PUMP_COOLDOWN_MS
                               /\ obs'.pct <= DRY_THRESHOLD_PERCENT)
            /\ (IsTick /\ pumpOn) =>
                  (~pumpOn' <=> /\ RealElapsed >= MIN_PUMP_RUN_MS
                                /\ obs'.pct >= WET_THRESHOLD_PERCENT) ]_vars

\* C30 (amended): as above, but a transition is sure to be taken only while
\* the real time since the last write is known to be less than 2^32 ms, and
\* then the elapsed time the tick computes is that real time; a transition
\* that is taken is never early.
C30_WrapSafe ==
    [][ /\ (obs'.call = "setup" /\ variant = "v2") =>
              \/ obs'.elapsed < 0
              \/ obs'.elapsed >= PUMP_COOLDOWN_MS
        /\ pc = "run" =>
            /\ IsTick <=> (clock' - lastSampleMs >= SAMPLE_INTERVAL_MS)
            /\ (IsTick /\ KnownElapsed) => obs'.elapsed = RealElapsed
            /\ (IsTick /\ ~pumpOn) =>
                  /\ pumpOn' => /\ RealElapsed >= PUMP_COOLDOWN_MS
                                /\ obs'.pct <= DRY_THRESHOLD_PERCENT
                  /\ (/\ KnownElapsed
                      /\ RealElapsed >= PUMP_COOLDOWN_MS
                      /\ obs'.pct <= DRY_THRESHOLD_PERCENT) => pumpOn'
            /\ (IsTick /\ pumpOn) =>
                  /\ ~pumpOn' => /\ RealElapsed >= MIN_PUMP_RUN_MS
                                 /\ obs'.pct >= WET_THRESHOLD_PERCENT
                  /\ (/\ KnownElapsed
                      /\ RealElapsed >= MIN_PUMP_RUN_MS
                      /\ obs'.pct >= WET_THRESHOLD_PERCENT) => ~pumpOn' ]_vars

\* a tick 100 ms after the wrap has stopped the pump, which was started
\* before the wrap, exactly at the end of the minimum run time
C30_Witness ==
    /\ obs.call = "tick" /\ obs.wasOn /\ ~pumpOn
    /\ obs.elapsed = MIN_PUMP_RUN_MS
    /\ clock > 0 /\ clock < SAMPLE_INTERVAL_MS
    /\ lastPumpChangeMs = clock

\* C31: there is no maximum run time.  A tick executed with the pump ON and
\* a moisture percentage below the wet threshold leaves the pump ON, however
\* long the pump has been running.
C31_NoMaxRun ==
    [][ (IsTick /\ pumpOn /\ obs'.pct < WET_THRESHOLD_PERCENT) => pumpOn' ]_vars

\* a tick has left the pump ON after it had run for a whole cooldown, six
\* times the minimum run time, the percentage being below the wet threshold
C31_Witness ==
    /\ obs.call = "tick" /\ obs.wasOn /\ pumpOn
    /\ obs.elapsed >= PUMP_COOLDOWN_MS
    /\ obs.pct < WET_THRESHOLD_PERCENT

====
